---- MODULE Spec2Model ----
(***************************************************************************)
(* Model of the tdl web backend: the authentication service                *)
(* (web/backend/service/auth.go), the settings handler                     *)
(* (web/backend/api/settings.go) and the download / forward / upload task  *)
(* handlers (web/backend/api/{download,forward,upload}.go).                *)
(*                                                                         *)
(* The key-value storage is a map namespace -> key -> value; one storage   *)
(* operation (Get / Set / Delete) is one atomic step, a handler or a       *)
(* goroutine that issues several of them is several steps.                 *)
(***************************************************************************)
EXTENDS Integers, Sequences, FiniteSets, TLC

\* ------------------------------------------------------------------ bounds
\* LoginSession objects created in one run
MaxLogins == 1
\* task IDs a request may carry, per handler
MaxTaskIDs == 1
\* task goroutines started in one run
MaxGoroutines == 2
\* the count of terminal events per task saturates here
MaxTermEvents == 2
\* ticks one progress monitor of a forward task is followed for
MaxTicks == 2
\* WebSocket messages in flight to the frontend
MaxQueue == 2
\* capacity of a client's send channel (make(chan []byte, 256), scaled down)
SendCap == 1
\* broadcast calls ever made
MaxMsgs == 3

\* the user id that verifyCode hard-codes
TestUserID == 123456789

LoginIDs == 1..MaxLogins
SessionIDs == {1}
QRUserIDs == {1}
UserIDs == QRUserIDs \cup {TestUserID}
Phones == {1, 2}
TaskIDs == 1..MaxTaskIDs
Goroutines == 1..MaxGoroutines
Handlers == {"download", "forward", "upload"}

\* the simulated download loop: for i := 0; i <= 100; i += 10
ProgressStep == 10
ProgressEnd == 100
\* monitorRealForwardProgress stops once forwarded >= 20
ForwardDone == 20

\* ------------------------------------------------------- storage (pkg/kv)
UserNS_shared(userID) == <<"user", 0>>
UserNS(userID) == <<"user", userID>>
SessionNS(sessionID) == <<"session", sessionID>>
SettingsNS == <<"settings", 0>>

Namespaces == {UserNS(u) : u \in UserIDs} \cup {SessionNS(s) : s \in SessionIDs} \cup {SettingsNS}
Keys == {"session", "user_info", "app", "global"}

NotFound == [tag |-> "NotFound", f |-> <<>>]
Established == [tag |-> "established", f |-> <<>>]
AppDesktop == [tag |-> "desktop", f |-> <<>>]

NoUserInfo == [ID |-> 0, Phone |-> 0]

MarshalUserInfo(info) == [tag |-> "user_info", f |-> <<info.ID, info.Phone>>]
UnmarshalUserInfo(data) ==
    IF data.tag = "user_info" /\ Len(data.f) = 2
    THEN [ID |-> data.f[1], Phone |-> data.f[2]]
    ELSE NoUserInfo

\* ----------------------------------------------------------- login status
StatusNone == "none"
StatusInitializing == "initializing"
StatusWaitingQR == "waiting_qr"
StatusWaitingCode == "waiting_code"
StatusWaitingPassword == "waiting_password"
StatusCompleted == "completed"
StatusFailed == "failed"

NoNamespace == <<"none", 0>>

FreeLogin == [sid |-> 0, Type |-> "none", Status |-> StatusNone, UserInfo |-> NoUserInfo,
              Phone |-> 0, NeedPassword |-> FALSE, pc |-> "unused", vpc |-> "idle",
              info |-> NoUserInfo, clientKV |-> NoNamespace, pwChan |-> 0]

\* ------------------------------------------------- client identification
\* strings are sequences of tokens; the separators of an address are tokens
IPv4s == {<<"10", ".", "0", ".", "0", ".", "1">>, <<"10", ".", "0", ".", "0", ".", "2">>}
IPv6s == {<<":", ":", "1">>}
ClientIPs == IPv4s \cup IPv6s \cup {<<>>}

\* what of a request the client identification reads: the tdl_client_id
\* cookie, the X-TDL-Client-ID and X-Session-ID headers, c.ClientIP()
Requests == [cookie : {<<>>, <<"c1">>, <<"c2">>}, header : {<<>>, <<"h1">>},
             sessionHeader : {<<>>, <<"s1">>}, ip : ClientIPs]

\* generateClientID: rand.Read fails, or 16 random bytes in hex
GenOutcomes == {"fail", "a1", "b2"}

\* strings.ReplaceAll(s, old, new) for a separator token
RECURSIVE ReplaceAll(_, _, _)
ReplaceAll(s, old, new) ==
    IF s = <<>> THEN <<>>
    ELSE <<IF Head(s) = old THEN new ELSE Head(s)>> \o ReplaceAll(Tail(s), old, new)

Contains(s, tok) == \E i \in 1..Len(s) : s[i] = tok

\* sanitizeString: the characters a file name may not hold are spelled out
SanitizeString(s) == ReplaceAll(ReplaceAll(s, ":", "_colon_"), "/", "_slash_")

\* util.SafeClientID
SafeClientID(clientIP) ==
    IF Contains(clientIP, ":") THEN ReplaceAll(clientIP, ":", "_")
    ELSE IF clientIP \in IPv4s THEN ReplaceAll(clientIP, ".", "-")
    ELSE SanitizeString(clientIP)

\* AuthHandler.getClientID (the chat handler does the same)
AuthClientID(req) == [id |-> SafeClientID(req.ip), err |-> FALSE]

\* DownloadHandler.getClientID: cookie, header, a generated id, or "client_"
\* and the address with ":" and "." replaced by "_"
DownloadClientID(req, gen) ==
    IF req.cookie # <<>> THEN [id |-> req.cookie, err |-> FALSE]
    ELSE IF req.header # <<>> THEN [id |-> req.header, err |-> FALSE]
    ELSE IF gen = "fail"
         THEN [id |-> <<"client_">> \o ReplaceAll(ReplaceAll(req.ip, ":", "_"), ".", "_"),
               err |-> FALSE]
    ELSE [id |-> <<"client_", gen>>, err |-> FALSE]

\* ForwardHandler.getClientID: the same code as the download handler's
ForwardClientID(req, gen) ==
    IF req.cookie # <<>> THEN [id |-> req.cookie, err |-> FALSE]
    ELSE IF req.header # <<>> THEN [id |-> req.header, err |-> FALSE]
    ELSE IF gen = "fail"
         THEN [id |-> <<"client_">> \o ReplaceAll(ReplaceAll(req.ip, ":", "_"), ".", "_"),
               err |-> FALSE]
    ELSE [id |-> <<"client_", gen>>, err |-> FALSE]

\* UploadHandler.getOrCreateClientID: cookie, header, X-Session-ID, or
\* util.SafeClientID of the address; an error when the address is empty
UploadClientID(req) ==
    IF req.cookie # <<>> THEN [id |-> req.cookie, err |-> FALSE]
    ELSE IF req.header # <<>> THEN [id |-> req.header, err |-> FALSE]
    ELSE IF req.sessionHeader # <<>> THEN [id |-> req.sessionHeader, err |-> FALSE]
    ELSE IF req.ip = <<>> THEN [id |-> <<>>, err |-> TRUE]
    ELSE [id |-> SafeClientID(req.ip), err |-> FALSE]

NoIdent ==
    [seen |-> FALSE, req |-> [cookie |-> <<>>, header |-> <<>>, sessionHeader |-> <<>>, ip |-> <<>>],
     auth |-> [id |-> <<>>, err |-> FALSE], download |-> [id |-> <<>>, err |-> FALSE],
     forward |-> [id |-> <<>>, err |-> FALSE], upload |-> [id |-> <<>>, err |-> FALSE]]

\* ------------------------------------------------- forward requests
\* a ForwardRequest: the number of from_sources, to_chat, mode
ForwardRequests == [FromSources : {0, 1}, ToChat : {"", "chat"},
                    Mode : {"", "direct", "CLONE", "copy"}]

\* the request the task specifications draw: one source, a chat, mode direct
DirectForward == [FromSources |-> 1, ToChat |-> "chat", Mode |-> "direct"]

NoForward == [req |-> [FromSources |-> 0, ToChat |-> "", Mode |-> ""], code |-> "none"]

\* ---------------------------------------------------------------- frontend
NoCall == <<"none", "none">>

\* the frontend before its WebSocket is open: no task in the store
InitFrontend ==
    [connected |-> FALSE, queue |-> <<>>,
     tasks |-> [t \in TaskIDs |-> "none"], call |-> [t \in TaskIDs |-> NoCall]]

VARIABLES
    kv,          \* kv.Storage: namespace -> key -> value
    login,       \* the LoginSession objects ever allocated, with their goroutines
    sessions,    \* AuthService.sessions: session id -> LoginSession (0: none)
    lpc,         \* per account: position of an in-flight Logout call
    loggedOut,   \* history: Logout(u) returned and no login has written or completed for u since
    fresh,       \* history: login o began saving and no Logout step for its account ran since
    wsClients,   \* Hub.clients: number of registered WebSocket clients
    serverCancelled, \* the server context (h.ctx of every handler) is cancelled
    gor,         \* the task goroutines: kind, task id, position, loop counter, own context
    store,       \* taskStore of each handler: task id -> status, progress
    active,      \* activeTasks of each handler: task id -> goroutine whose cancel func is stored
    termEvents,  \* history: task_end / task_error events broadcast per task since its last start
    lastProg,    \* history: transferred count of the last progress event per task (-1: none)
    tempDir,     \* the directory <tmp>/tdl_upload/<task id> exists
    frontend,    \* the web frontend: its WebSocket, its task store, its API calls in flight
    lastForward, \* history: the last StartForward request and the response to it
    ident,       \* history: the last request and the client id each handler derives from it
    lastSettings, \* history: the last UpdateSettings / ResetSettings request and the response to it
    hubClients,  \* Hub.clients: the clients in the map
    send,        \* Client.send of each client: the buffered messages
    closes,      \* how often close(client.send) was called (2: close of a closed channel)
    sentClosed,  \* the hub sent on a send channel after closing it
    cpc,         \* per client: position of HandleWebSocket / readPump
    wpc,         \* per client: position of writePump
    bcall,       \* per caller: the message of its broadcast call in flight (0: none)
    nMsg,        \* number of broadcast calls made so far
    accepted,    \* history: the messages Hub.Run received from h.broadcast, in order
    placed,      \* history: the messages sent on each client's send channel, in order
    regAt,       \* history: Len(accepted) when the hub registered the client (-1: not yet)
    remAt,       \* history: Len(accepted) when the hub removed the client (-1: not yet)
    remBy,       \* history: the case of Hub.Run that removed the client
    lastVerify   \* history: the error the last VerifyCode / VerifyPassword call returned

authVars == <<login, sessions, lpc, loggedOut, fresh>>
hubVars == <<hubClients, send, closes, sentClosed, cpc, wpc, bcall, nMsg, accepted, placed, regAt, remAt, remBy>>
handlerVars == <<wsClients, serverCancelled, gor, store, active, termEvents, lastProg, tempDir, frontend, lastForward, ident, lastSettings>>
taskVars == <<handlerVars, hubVars, lastVerify>>

vars == <<kv, login, sessions, lpc, loggedOut, fresh,
          wsClients, serverCancelled, gor, store, active, termEvents, lastProg, tempDir, frontend, lastForward, ident, lastSettings,
          hubClients, send, closes, sentClosed, cpc, wpc, bcall, nMsg, accepted, placed, regAt, remAt, remBy, lastVerify>>

\* Delete(key) of the storage: NotFound when the key is absent
DeleteResult(ns, key) == IF kv[ns][key] = NotFound THEN "not_found" ELSE "nil"

\* kv.IsNotFound
IsNotFound(err) == err = "not_found"

\* `err != nil && !kv.IsNotFound(err)` after a Delete
DeleteFailed_strict(err) == err # "nil"
DeleteFailed(err) == err # "nil" /\ ~IsNotFound(err)

\* IsAuthenticated(userID): (authenticated, user info or nil)
IsAuthenticated(userID) ==
    LET ns == UserNS(userID)
        sessionData == kv[ns]["session"]
        userInfoData == kv[ns]["user_info"]
    IN  IF sessionData = NotFound
        THEN [auth |-> FALSE, info |-> NoUserInfo]
        ELSE IF userInfoData = NotFound
             THEN [auth |-> TRUE, info |-> NoUserInfo]
             ELSE [auth |-> TRUE, info |-> UnmarshalUserInfo(userInfoData)]

\* the namespace saveUserInfo(sessionID, userInfo) writes to
SaveNamespace_bySession(sessionID, userInfo) == SessionNS(sessionID)
SaveNamespace(sessionID, userInfo) == UserNS(userInfo.ID)

\* the namespace createTelegramClientForUser opens for a telegram id
ClientNamespace(telegramID) == UserNS(telegramID)

\* the namespace processQRLogin hands to the login client as its KV
LoginClientNamespace(sessionID) == SessionNS(sessionID)

\* no VerifyCode / VerifyPassword call has returned yet
NoVerify == [err |-> "none"]

InitAuth ==
    /\ kv = [ns \in Namespaces |-> [k \in Keys |-> NotFound]]
    /\ login = [o \in LoginIDs |-> FreeLogin]
    /\ sessions = [s \in SessionIDs |-> 0]
    /\ lpc = [u \in UserIDs |-> "idle"]
    /\ loggedOut = [u \in UserIDs |-> FALSE]
    /\ fresh = [o \in LoginIDs |-> FALSE]
    /\ lastVerify = NoVerify

\* ------------------------------------------------------------ AuthService
\* LoginSession objects are allocated in order
NextFree(o) == login[o].pc = "unused" /\ \A p \in LoginIDs : p < o => login[p].pc # "unused"

StartQRLogin(sessionID, o) ==
    /\ NextFree(o)
    /\ login' = [login EXCEPT ![o] = [FreeLogin EXCEPT !.sid = sessionID, !.Type = "qr",
                                        !.Status = StatusInitializing, !.pc = "qr_init"]]
    /\ sessions' = [sessions EXCEPT ![sessionID] = o]
    /\ UNCHANGED taskVars
    /\ UNCHANGED <<kv, lpc, loggedOut, fresh>>

StartCodeLogin(sessionID, phone, o) ==
    /\ NextFree(o)
    /\ login' = [login EXCEPT ![o] = [FreeLogin EXCEPT !.sid = sessionID, !.Type = "code",
                                        !.Status = StatusInitializing, !.Phone = phone,
                                        !.pc = "code_init"]]
    /\ sessions' = [sessions EXCEPT ![sessionID] = o]
    /\ UNCHANGED taskVars
    /\ UNCHANGED <<kv, lpc, loggedOut, fresh>>

\* processQRLogin: open session_<id>, set the app type, create the client
QRInit(o) ==
    /\ login[o].pc = "qr_init"
    /\ kv' = [kv EXCEPT ![LoginClientNamespace(login[o].sid)]["app"] = AppDesktop]
    /\ \/ login' = [login EXCEPT ![o].clientKV = LoginClientNamespace(login[o].sid),
                                 ![o].pc = "qr_run"]
       \/ login' = [login EXCEPT ![o].Status = StatusFailed, ![o].pc = "done"]
    /\ UNCHANGED taskVars
    /\ UNCHANGED <<sessions, lpc, loggedOut, fresh>>

\* processQRLogin: client.Run starts, status waiting_qr
QRRun(o) ==
    /\ login[o].pc = "qr_run"
    /\ login' = [login EXCEPT ![o].Status = StatusWaitingQR, ![o].pc = "qr_auth"]
    /\ UNCHANGED taskVars
    /\ UNCHANGED <<kv, sessions, lpc, loggedOut, fresh>>

\* processQRLogin: outcome of client.QR().Auth and, on success, client.Self
QRAuth(o) ==
    /\ login[o].pc = "qr_auth"
    /\ \/ \E u \in QRUserIDs :
            login' = [login EXCEPT ![o].info = [ID |-> u, Phone |-> 0], ![o].pc = "save_info"]
       \/ login' = [login EXCEPT ![o].Status = StatusWaitingPassword,
                                 ![o].NeedPassword = TRUE, ![o].pc = "wait_pw"]
       \/ login' = [login EXCEPT ![o].Status = StatusFailed, ![o].pc = "done"]
    /\ UNCHANGED taskVars
    /\ UNCHANGED <<kv, sessions, lpc, loggedOut, fresh>>

\* processQRLogin: the select that waits for the 2FA password
QRPassword(o) ==
    /\ login[o].pc = "wait_pw"
    /\ \/ /\ login[o].pwChan > 0
          /\ \/ \E u \in QRUserIDs :
                  login' = [login EXCEPT ![o].pwChan = 0, ![o].info = [ID |-> u, Phone |-> 0],
                                         ![o].pc = "save_info"]
             \/ login' = [login EXCEPT ![o].pwChan = 0, ![o].Status = StatusFailed,
                                       ![o].pc = "done"]
       \/ login' = [login EXCEPT ![o].Status = StatusFailed, ![o].pc = "done"]
    /\ UNCHANGED taskVars
    /\ UNCHANGED <<kv, sessions, lpc, loggedOut, fresh>>

\* processCodeLogin
CodeInit(o) ==
    /\ login[o].pc = "code_init"
    /\ login' = [login EXCEPT ![o].Status = StatusWaitingCode, ![o].pc = "done"]
    /\ UNCHANGED taskVars
    /\ UNCHANGED <<kv, sessions, lpc, loggedOut, fresh>>

\* session.Status != status of VerifyCode / VerifyPassword, negated
WaitingFor_any(o, status) == TRUE
WaitingFor(o, status) == login[o].Status = status

\* the call returns an error before it starts anything
VerifyRejected(err) ==
    /\ lastVerify' = [err |-> err]
    /\ UNCHANGED <<kv, login, sessions, lpc, loggedOut, fresh>>

\* VerifyCode: "session not found" for an unknown id, "not waiting for code"
\* for another status; otherwise go s.verifyCode(session, code), return nil
VerifyCode(sessionID) ==
    /\ IF sessions[sessionID] = 0
       THEN VerifyRejected("session not found")
       ELSE LET o == sessions[sessionID] IN
            IF ~WaitingFor(o, StatusWaitingCode)
            THEN VerifyRejected("not waiting for code")
            ELSE /\ login[o].vpc = "idle"
                 /\ login' = [login EXCEPT ![o].vpc = "save_info",
                                           ![o].info = [ID |-> TestUserID, Phone |-> login[o].Phone]]
                 /\ lastVerify' = [err |-> "nil"]
                 /\ UNCHANGED <<kv, sessions, lpc, loggedOut, fresh>>
    /\ UNCHANGED <<handlerVars, hubVars>>

\* VerifyPassword: "session not found" for an unknown id, "not waiting for
\* password" for another status; otherwise go s.verifyPassword, return nil
VerifyPassword(sessionID) ==
    /\ IF sessions[sessionID] = 0
       THEN VerifyRejected("session not found")
       ELSE LET o == sessions[sessionID] IN
            IF ~WaitingFor(o, StatusWaitingPassword)
            THEN VerifyRejected("not waiting for password")
            ELSE /\ login[o].vpc = "idle"
                 /\ login' = [login EXCEPT ![o].vpc = "send_pw"]
                 /\ lastVerify' = [err |-> "nil"]
                 /\ UNCHANGED <<kv, sessions, lpc, loggedOut, fresh>>
    /\ UNCHANGED <<handlerVars, hubVars>>

\* verifyPassword: non-blocking send on PasswordChan (capacity 1)
SendPassword(o) ==
    /\ login[o].vpc = "send_pw"
    /\ IF login[o].pwChan = 0
       THEN login' = [login EXCEPT ![o].pwChan = 1, ![o].vpc = "idle"]
       ELSE login' = [login EXCEPT ![o].Status = StatusFailed, ![o].vpc = "idle"]
    /\ UNCHANGED taskVars
    /\ UNCHANGED <<kv, sessions, lpc, loggedOut, fresh>>

\* which goroutine of login o is at position p (the login goroutine or verifyCode)
AtStep(o, p) == login[o].pc = p \/ login[o].vpc = p
Advance(o, p, q) ==
    IF login[o].pc = p THEN [login EXCEPT ![o].pc = q] ELSE [login EXCEPT ![o].vpc = q]

\* saveUserInfo: ns.Set("user_info", json)
SaveUserInfo(o) ==
    /\ AtStep(o, "save_info")
    /\ LET u == login[o].info.ID
           ns == SaveNamespace(login[o].sid, login[o].info) IN
        /\ kv' = [kv EXCEPT ![ns]["user_info"] = MarshalUserInfo(login[o].info)]
        /\ loggedOut' = [loggedOut EXCEPT ![u] = FALSE]
        /\ fresh' = [fresh EXCEPT ![o] = TRUE]
    /\ login' = Advance(o, "save_info", "save_session")
    /\ UNCHANGED taskVars
    /\ UNCHANGED <<sessions, lpc>>

\* saveUserInfo: ns.Set("session", "established")
SaveSession(o) ==
    /\ AtStep(o, "save_session")
    /\ LET u == login[o].info.ID
           ns == SaveNamespace(login[o].sid, login[o].info) IN
        /\ kv' = [kv EXCEPT ![ns]["session"] = Established]
        /\ loggedOut' = [loggedOut EXCEPT ![u] = FALSE]
    /\ login' = Advance(o, "save_session", "complete")
    /\ UNCHANGED taskVars
    /\ UNCHANGED <<sessions, lpc, fresh>>

\* completeLoginInClient / verifyCode: status completed, UserInfo set
CompleteLogin(o) ==
    /\ AtStep(o, "complete")
    /\ login' = [Advance(o, "complete", IF login[o].pc = "complete" THEN "done" ELSE "idle")
                    EXCEPT ![o].Status = StatusCompleted, ![o].UserInfo = login[o].info]
    /\ loggedOut' = [loggedOut EXCEPT ![login[o].info.ID] = FALSE]
    /\ UNCHANGED taskVars
    /\ UNCHANGED <<kv, sessions, lpc, fresh>>

\* cleanupSessions: a session not updated for 30 minutes is dropped from the map
CleanupSession(sessionID) ==
    /\ sessions[sessionID] # 0
    /\ sessions' = [sessions EXCEPT ![sessionID] = 0]
    /\ UNCHANGED taskVars
    /\ UNCHANGED <<kv, login, lpc, loggedOut, fresh>>

\* Logout(userID): Open, Delete("session"), Delete("user_info")
LogoutBegin(u) ==
    /\ lpc[u] = "idle"
    /\ lpc' = [lpc EXCEPT ![u] = "del_session"]
    /\ UNCHANGED taskVars
    /\ UNCHANGED <<kv, login, sessions, loggedOut, fresh>>

StaleAfterLogout(u) ==
    [o \in LoginIDs |-> IF login[o].info.ID = u THEN FALSE ELSE fresh[o]]

\* Logout: Delete("session"); an error other than NotFound is returned
LogoutDeleteSession(u) ==
    /\ lpc[u] = "del_session"
    /\ IF DeleteFailed(DeleteResult(UserNS(u), "session"))
       THEN /\ lpc' = [lpc EXCEPT ![u] = "idle"]
            /\ UNCHANGED <<kv, fresh>>
       ELSE /\ kv' = [kv EXCEPT ![UserNS(u)]["session"] = NotFound]
            /\ lpc' = [lpc EXCEPT ![u] = "del_info"]
            /\ fresh' = StaleAfterLogout(u)
    /\ UNCHANGED taskVars
    /\ UNCHANGED <<login, sessions, loggedOut>>

\* Logout: Delete("user_info"); an error other than NotFound is returned,
\* otherwise Logout returns nil
LogoutDeleteUserInfo(u) ==
    /\ lpc[u] = "del_info"
    /\ IF DeleteFailed(DeleteResult(UserNS(u), "user_info"))
       THEN /\ lpc' = [lpc EXCEPT ![u] = "idle"]
            /\ UNCHANGED <<kv, fresh, loggedOut>>
       ELSE /\ kv' = [kv EXCEPT ![UserNS(u)]["user_info"] = NotFound]
            /\ lpc' = [lpc EXCEPT ![u] = "idle"]
            /\ loggedOut' = [loggedOut EXCEPT ![u] = TRUE]
            /\ fresh' = StaleAfterLogout(u)
    /\ UNCHANGED taskVars
    /\ UNCHANGED <<login, sessions>>

NextAuth ==
    \/ \E s \in SessionIDs, o \in LoginIDs : StartQRLogin(s, o)
    \/ \E s \in SessionIDs, p \in Phones, o \in LoginIDs : StartCodeLogin(s, p, o)
    \/ \E o \in LoginIDs : QRInit(o)
    \/ \E o \in LoginIDs : QRRun(o)
    \/ \E o \in LoginIDs : QRAuth(o)
    \/ \E o \in LoginIDs : QRPassword(o)
    \/ \E o \in LoginIDs : CodeInit(o)
    \/ \E s \in SessionIDs : VerifyCode(s)
    \/ \E s \in SessionIDs : VerifyPassword(s)
    \/ \E o \in LoginIDs : SendPassword(o)
    \/ \E o \in LoginIDs : SaveUserInfo(o)
    \/ \E o \in LoginIDs : SaveSession(o)
    \/ \E o \in LoginIDs : CompleteLogin(o)
    \/ \E s \in SessionIDs : CleanupSession(s)
    \/ \E u \in UserIDs : LogoutBegin(u)
    \/ \E u \in UserIDs : LogoutDeleteSession(u)
    \/ \E u \in UserIDs : LogoutDeleteUserInfo(u)


\* ---------------------------------------------------------------- settings
DefaultSettings == [GlobalProxy |-> 0, ReconnectTimeout |-> 300, MaxThreads |-> 4,
                    MaxTasks |-> 2, PartSize |-> 512]

MarshalSettings_noProxy(st) ==
    [tag |-> "settings",
     f |-> <<0, st.ReconnectTimeout, st.MaxThreads, st.MaxTasks, st.PartSize>>]
MarshalSettings(st) ==
    [tag |-> "settings",
     f |-> <<st.GlobalProxy, st.ReconnectTimeout, st.MaxThreads, st.MaxTasks, st.PartSize>>]
UnmarshalSettings(data) ==
    IF data.tag = "settings" /\ Len(data.f) = 5
    THEN [GlobalProxy |-> data.f[1], ReconnectTimeout |-> data.f[2], MaxThreads |-> data.f[3],
          MaxTasks |-> data.f[4], PartSize |-> data.f[5]]
    ELSE DefaultSettings

\* GetCurrentSettings: the stored settings, or the defaults when none are stored
GetCurrentSettings ==
    IF kv[SettingsNS]["global"] = NotFound
    THEN DefaultSettings
    ELSE UnmarshalSettings(kv[SettingsNS]["global"])

\* GetSettings: the same lookup, made by the handler of GET /settings
GetSettings ==
    IF kv[SettingsNS]["global"] = NotFound
    THEN DefaultSettings
    ELSE UnmarshalSettings(kv[SettingsNS]["global"])

\* the validation of UpdateSettings
ValidSettings_noMaxTasks(st) ==
    /\ ~(st.ReconnectTimeout < 0)
    /\ ~(st.MaxThreads < 1 \/ st.MaxThreads > 16)
    /\ ~(st.PartSize < 64 \/ st.PartSize > 2048)
ValidSettings(st) ==
    /\ ~(st.ReconnectTimeout < 0)
    /\ ~(st.MaxThreads < 1 \/ st.MaxThreads > 16)
    /\ ~(st.MaxTasks < 1 \/ st.MaxTasks > 8)
    /\ ~(st.PartSize < 64 \/ st.PartSize > 2048)

NoSettingsRequest == [op |-> "none", req |-> DefaultSettings, err |-> "nil", code |-> "none"]

\* UpdateSettings: a request that fails validation is rejected and stores nothing
UpdateSettings(st) ==
    /\ kv' = IF ValidSettings(st)
             THEN [kv EXCEPT ![SettingsNS]["global"] = MarshalSettings(st)]
             ELSE kv
    /\ lastSettings' = [op |-> "update", req |-> st, err |-> "nil",
                        code |-> IF ValidSettings(st) THEN "ok" ELSE "validation_error"]
    /\ UNCHANGED authVars
    /\ UNCHANGED <<hubVars, lastVerify>>
    /\ UNCHANGED <<wsClients, serverCancelled, gor, store, active, termEvents, lastProg>>
    /\ UNCHANGED <<tempDir, frontend, lastForward, ident>>

\* ResetSettings: Delete("global"), an absent key tolerated; the defaults are
\* returned
ResetSettings ==
    LET err == DeleteResult(SettingsNS, "global") IN
    /\ kv' = IF DeleteFailed(err) THEN kv ELSE [kv EXCEPT ![SettingsNS]["global"] = NotFound]
    /\ lastSettings' = [op |-> "reset", req |-> DefaultSettings, err |-> err,
                        code |-> IF DeleteFailed(err) THEN "internal_error" ELSE "ok"]
    /\ UNCHANGED authVars
    /\ UNCHANGED <<hubVars, lastVerify>>
    /\ UNCHANGED <<wsClients, serverCancelled, gor, store, active, termEvents, lastProg>>
    /\ UNCHANGED <<tempDir, frontend, lastForward, ident>>

\* the settings requests of the settings specification: every field at and
\* beyond the ends of its range
SettingsInputs ==
    [GlobalProxy : {0, 1}, ReconnectTimeout : {-1, 0}, MaxThreads : {0, 1, 16, 17},
     MaxTasks : {0, 1, 8, 9}, PartSize : {63, 64, 2048, 2049}]

\* settings with a proxy, as a request of the storage specification
ProxySettings == [DefaultSettings EXCEPT !.GlobalProxy = 1]

NextSettings ==
    \/ \E st \in SettingsInputs : UpdateSettings(st)
    \/ ResetSettings

\* ------------------------------------------------------- task handlers
NoTask == [Status |-> "none", Progress |-> 0]
DoneGor == [kind |-> "none", task |-> 0, pc |-> "done", i |-> 0, cancelled |-> FALSE,
            mon |-> "off", fwd |-> 0]
FreeGor == [kind |-> "none", task |-> 0, pc |-> "unused", i |-> 0, cancelled |-> FALSE,
            mon |-> "off", fwd |-> 0]

InitTasks ==
    /\ wsClients = 0
    /\ serverCancelled = FALSE
    /\ gor = [g \in Goroutines |-> FreeGor]
    /\ store = [h \in Handlers |-> [t \in TaskIDs |-> NoTask]]
    /\ active = [h \in Handlers |-> [t \in TaskIDs |-> 0]]
    /\ termEvents = [h \in Handlers |-> [t \in TaskIDs |-> 0]]
    /\ lastProg = [h \in Handlers |-> [t \in TaskIDs |-> -1]]
    /\ tempDir = [t \in TaskIDs |-> FALSE]
    /\ frontend = InitFrontend
    /\ lastForward = NoForward
    /\ ident = NoIdent
    /\ lastSettings = NoSettingsRequest

Min(a, b) == IF a < b THEN a ELSE b

\* the parent of the context a handler creates for a task: context.WithCancel(h.ctx)
TaskCtxParent_background(h) == "background"
TaskCtxParent(h) == "server"

\* taskCtx.Done() of goroutine g is closed
CtxDone(g) ==
    gor[g].cancelled \/ (TaskCtxParent(gor[g].kind) = "server" /\ serverCancelled)

\* the goroutines whose context the cancel func stored under activeTasks[taskID] cancels
CancelTargets_all(h, t) == {g \in Goroutines : gor[g].pc # "unused"}
CancelTargets(h, t) == IF active[h][t] # 0 THEN {active[h][t]} ELSE {}

\* updateTaskStatus / updateForwardTaskStatus: only an existing entry is changed
UpdateTaskStatus(h, t, status, progress) ==
    IF store[h][t].Status = "none" THEN store
    ELSE [store EXCEPT ![h][t] = [Status |-> status, Progress |-> progress]]

\* Transferred of the simulated download: int64(i * 1024 * 1024)
Transferred(i) == i * 1024 * 1024

\* Hub.Run, broadcast case: the message goes to every registered client.
\* A task_end or task_error event for the task:
EmitTerminal(h, t) ==
    termEvents' = IF wsClients = 0 THEN termEvents
                  ELSE [termEvents EXCEPT ![h][t] = Min(@ + 1, MaxTermEvents)]

\* a progress event for the task:
EmitProgress(h, t, transferred) ==
    lastProg' = IF wsClients = 0 THEN lastProg
                ELSE [lastProg EXCEPT ![h][t] = transferred]

\* ------------------------------------------------ frontend, backend side
\* Hub.Run, broadcast case, towards the frontend: the message is queued on
\* the send channel of its client. The frontend task store holds download
\* tasks, and handleMessage does nothing on task_start, so only the other
\* messages of the download handler are followed.
Broadcast(fe, h, type, t) ==
    IF fe.connected /\ h = "download"
    THEN [fe EXCEPT !.queue = Append(@, <<type, t>>)]
    ELSE fe

\* there is room on the send channel of the frontend's client
QueueRoom == ~frontend.connected \/ Len(frontend.queue) < MaxQueue

\* a handler that serves the API call the frontend has in flight for the task
\* sends its success response
Answer(fe, h, t, action) ==
    IF h = "download" /\ fe.call[t] = <<action, "sent">>
    THEN [fe EXCEPT !.call[t] = <<action, "answered">>]
    ELSE fe

\* Hub.Run, register case: a WebSocket client connects
RegisterClient ==
    /\ wsClients = 0
    /\ wsClients' = 1
    /\ UNCHANGED <<serverCancelled, gor, store, active, termEvents, lastProg>>
    /\ UNCHANGED <<kv, tempDir, frontend, lastForward, ident, lastSettings>>
    /\ UNCHANGED authVars
    /\ UNCHANGED <<hubVars, lastVerify>>

\* goroutines are numbered in the order they are started
NextFreeGor(g) ==
    gor[g].pc = "unused" /\ \A p \in Goroutines : p < g => gor[p].pc # "unused"

\* the handler part of StartDownload / StartForward / StartUpload:
\* store the task as pending, create its context, store the cancel func, go
StartTask(h, t, g) ==
    /\ ~serverCancelled
    /\ NextFreeGor(g)
    /\ store' = [store EXCEPT ![h][t] = [Status |-> "pending", Progress |-> 0]]
    /\ active' = [active EXCEPT ![h][t] = g]
    /\ gor' = [gor EXCEPT ![g] = [FreeGor EXCEPT !.kind = h, !.task = t, !.pc = "start"]]
    /\ termEvents' = [termEvents EXCEPT ![h][t] = 0]
    /\ lastProg' = [lastProg EXCEPT ![h][t] = -1]
    /\ UNCHANGED <<wsClients, serverCancelled>>
    /\ UNCHANGED <<kv, tempDir, frontend, ident, lastSettings>>
    /\ UNCHANGED authVars
    /\ UNCHANGED <<hubVars, lastVerify>>

StartDownload(t, g) == StartTask("download", t, g) /\ UNCHANGED lastForward

\* the deferred activeTasks.Delete(taskID) of a task goroutine, and its end
ExitGor(g) ==
    /\ active' = [active EXCEPT ![gor[g].kind][gor[g].task] = 0]
    /\ gor' = [gor EXCEPT ![g] = IF gor[g].mon = "on"
                                   THEN [gor[g] EXCEPT !.pc = "exited"]
                                   ELSE DoneGor]

\* task goroutine: status running, task_start broadcast
GorStart(g) ==
    /\ gor[g].pc = "start"
    /\ gor[g].kind \in {"download", "forward"}
    /\ store' = UpdateTaskStatus(gor[g].kind, gor[g].task, "running", 0)
    /\ gor' = [gor EXCEPT ![g].pc = IF gor[g].kind = "download" THEN "loop" ELSE "exec"]
    /\ UNCHANGED <<wsClients, serverCancelled, active, termEvents, lastProg>>
    /\ UNCHANGED <<kv, tempDir, frontend, lastForward, ident, lastSettings>>
    /\ UNCHANGED authVars
    /\ UNCHANGED <<hubVars, lastVerify>>

\* StartDownload goroutine: select on taskCtx.Done() at the top of the loop body
DownloadLoop(g) ==
    /\ gor[g].pc = "loop"
    /\ IF CtxDone(g)
       THEN ExitGor(g)
       ELSE gor' = [gor EXCEPT ![g].pc = "tick"] /\ UNCHANGED active
    /\ UNCHANGED <<wsClients, serverCancelled, store, termEvents, lastProg>>
    /\ UNCHANGED <<kv, tempDir, frontend, lastForward, ident, lastSettings>>
    /\ UNCHANGED authVars
    /\ UNCHANGED <<hubVars, lastVerify>>

\* StartDownload goroutine: sleep, BroadcastProgress, updateTaskStatus(running, i), i += 10
DownloadTick(g) ==
    /\ gor[g].pc = "tick"
    /\ EmitProgress("download", gor[g].task, Transferred(gor[g].i))
    /\ store' = UpdateTaskStatus("download", gor[g].task, "running", gor[g].i)
    /\ gor' = [gor EXCEPT ![g].i = @ + ProgressStep,
                          ![g].pc = IF gor[g].i + ProgressStep <= ProgressEnd
                                    THEN "loop" ELSE "final"]
    /\ UNCHANGED <<wsClients, serverCancelled, active, termEvents>>
    /\ QueueRoom
    /\ frontend' = Broadcast(frontend, "download", "progress", gor[g].task)
    /\ UNCHANGED <<kv, tempDir, lastForward, ident, lastSettings>>
    /\ UNCHANGED authVars
    /\ UNCHANGED <<hubVars, lastVerify>>

\* task goroutine after its work: taskCtx.Err() decides between cancelled and completed
GorFinal(g) ==
    /\ gor[g].pc = "final"
    /\ QueueRoom
    /\ IF CtxDone(g)
       THEN /\ EmitTerminal(gor[g].kind, gor[g].task)
            /\ frontend' = Broadcast(frontend, gor[g].kind, "task_end", gor[g].task)
            /\ ExitGor(g)
       ELSE gor' = [gor EXCEPT ![g].pc = "complete"] /\ UNCHANGED <<active, termEvents, frontend>>
    /\ UNCHANGED <<wsClients, serverCancelled, store, lastProg>>
    /\ UNCHANGED <<kv, tempDir, lastForward, ident, lastSettings>>
    /\ UNCHANGED authVars
    /\ UNCHANGED <<hubVars, lastVerify>>

\* task goroutine: updateTaskStatus(completed, 100), task_end broadcast
GorComplete(g) ==
    /\ gor[g].pc = "complete"
    /\ store' = UpdateTaskStatus(gor[g].kind, gor[g].task, "completed", 100)
    /\ EmitTerminal(gor[g].kind, gor[g].task)
    /\ ExitGor(g)
    /\ UNCHANGED <<wsClients, serverCancelled, lastProg>>
    /\ QueueRoom
    /\ frontend' = Broadcast(frontend, gor[g].kind, "task_end", gor[g].task)
    /\ UNCHANGED <<kv, tempDir, lastForward, ident, lastSettings>>
    /\ UNCHANGED authVars
    /\ UNCHANGED <<hubVars, lastVerify>>

\* CancelTask / CancelForwardTask / PauseTask: load the cancel func, call it,
\* delete the activeTasks entry; then updateTaskStatus(status, 0) and the
\* task_end broadcast, whether or not an entry was found
StopTask(h, t, status) ==
    /\ ~serverCancelled
    /\ gor' = [g \in Goroutines |->
                 IF g \in CancelTargets(h, t) THEN [gor[g] EXCEPT !.cancelled = TRUE] ELSE gor[g]]
    /\ active' = [active EXCEPT ![h][t] = 0]
    /\ store' = UpdateTaskStatus(h, t, status, 0)
    /\ EmitTerminal(h, t)
    /\ UNCHANGED <<wsClients, serverCancelled, lastProg>>
    /\ QueueRoom
    /\ frontend' = Answer(Broadcast(frontend, h, "task_end", t), h, t,
                          IF status = "paused" THEN "pause" ELSE "cancel")
    /\ UNCHANGED <<kv, tempDir, lastForward, ident, lastSettings>>
    /\ UNCHANGED authVars
    /\ UNCHANGED <<hubVars, lastVerify>>

CancelTask(t) == StopTask("download", t, "cancelled")
PauseTask(t) == StopTask("download", t, "paused")

\* ResumeTask: only a paused task; status running with the stored progress
ResumeTask(t) ==
    /\ ~serverCancelled
    /\ store["download"][t].Status = "paused"
    /\ store' = UpdateTaskStatus("download", t, "running", store["download"][t].Progress)
    /\ UNCHANGED <<wsClients, serverCancelled, gor, active, termEvents, lastProg>>
    /\ frontend' = Answer(frontend, "download", t, "resume")
    /\ UNCHANGED <<kv, tempDir, lastForward, ident, lastSettings>>
    /\ UNCHANGED authVars
    /\ UNCHANGED <<hubVars, lastVerify>>

\* RetryTask: status pending, progress 0
RetryTask(t) ==
    /\ ~serverCancelled
    /\ store["download"][t].Status # "none"
    /\ store' = UpdateTaskStatus("download", t, "pending", 0)
    /\ UNCHANGED <<wsClients, serverCancelled, gor, active, termEvents, lastProg>>
    /\ frontend' = Answer(frontend, "download", t, "retry")
    /\ UNCHANGED <<kv, tempDir, lastForward, ident, lastSettings>>
    /\ UNCHANGED authVars
    /\ UNCHANGED <<hubVars, lastVerify>>

\* GetTasks / GetForwardTasks, one entry of the Range: a running task without
\* an activeTasks entry is stored as error "Task was interrupted"
GetTasksEntry(h, t) ==
    /\ ~serverCancelled
    /\ store[h][t].Status = "running"
    /\ active[h][t] = 0
    /\ store' = [store EXCEPT ![h][t].Status = "error"]
    /\ UNCHANGED <<wsClients, serverCancelled, gor, active, termEvents, lastProg>>
    /\ UNCHANGED <<kv, tempDir, frontend, lastForward, ident, lastSettings>>
    /\ UNCHANGED authVars
    /\ UNCHANGED <<hubVars, lastVerify>>

\* ---------------------------------------------------------- forward tasks
\* strings.ToLower on the modes a request may carry
ToLower(mode) == IF mode = "CLONE" THEN "clone" ELSE mode

\* the checks of StartForward before anything is stored: the binding of
\* from_sources (required), len(FromSources) = 0, ToChat = "", the mode switch
ForwardRequestValid(req) ==
    /\ ~(req.FromSources = 0)
    /\ ~(req.ToChat = "")
    /\ ToLower(req.Mode) \in {"clone", "direct", ""}

\* StartForward: a request that fails a check gets a validation error and
\* changes nothing; otherwise the task is stored and its goroutine started
StartForward(req, t, g) ==
    IF ForwardRequestValid(req)
    THEN /\ StartTask("forward", t, g)
         /\ lastForward' = [req |-> req, code |-> "ok"]
    ELSE /\ ~serverCancelled
         /\ lastForward' = [req |-> req, code |-> "validation_error"]
         /\ UNCHANGED <<wsClients, serverCancelled, gor, store, active, termEvents, lastProg>>
         /\ UNCHANGED <<kv, tempDir, frontend, ident, lastSettings>>
         /\ UNCHANGED authVars
         /\ UNCHANGED <<hubVars, lastVerify>>

\* the context handed to monitorRealForwardProgress is the one client.Run
\* passes to its callback: done once the task context is done or Run returned
MonitorCtxDone(g) == CtxDone(g) \/ gor[g].pc # "run"

\* StartForward goroutine: getClientID and createTelegramClientForUser fail, or
\* client.Run starts and its callback launches the progress monitor
ForwardExec(g, failed) ==
    /\ gor[g].pc = "exec"
    /\ gor' = [gor EXCEPT ![g] = IF failed
                                   THEN [gor[g] EXCEPT !.pc = "failed"]
                                   ELSE [gor[g] EXCEPT !.pc = "run", !.mon = "on", !.fwd = 0]]
    /\ UNCHANGED <<wsClients, serverCancelled, store, active, termEvents, lastProg>>
    /\ UNCHANGED <<kv, tempDir, frontend, lastForward, ident, lastSettings>>
    /\ UNCHANGED authVars
    /\ UNCHANGED <<hubVars, lastVerify>>

\* client.Run returns: with an error (always possible, and what a cancelled
\* context yields) or with nil
ForwardReturn(g, failed) ==
    /\ gor[g].pc = "run"
    /\ gor' = [gor EXCEPT ![g].pc = IF failed THEN "failed" ELSE "final"]
    /\ UNCHANGED <<wsClients, serverCancelled, store, active, termEvents, lastProg>>
    /\ UNCHANGED <<kv, tempDir, frontend, lastForward, ident, lastSettings>>
    /\ UNCHANGED authVars
    /\ UNCHANGED <<hubVars, lastVerify>>

\* StartForward goroutine, error path: status error, task_error broadcast, return
ForwardFail(g) ==
    /\ gor[g].pc = "failed"
    /\ store' = UpdateTaskStatus("forward", gor[g].task, "error", 0)
    /\ EmitTerminal("forward", gor[g].task)
    /\ ExitGor(g)
    /\ UNCHANGED <<wsClients, serverCancelled, lastProg>>
    /\ frontend' = Broadcast(frontend, "forward", "task_error", gor[g].task)
    /\ UNCHANGED <<kv, tempDir, lastForward, ident, lastSettings>>
    /\ UNCHANGED authVars
    /\ UNCHANGED <<hubVars, lastVerify>>

\* the monitor goroutine ends
MonitorOff(g) == IF gor[g].pc = "exited" THEN DoneGor ELSE [gor[g] EXCEPT !.mon = "off"]

\* monitorRealForwardProgress, ticker case (taken while the context is not
\* done): progress broadcast, updateForwardTaskStatus(running, forwarded * 5),
\* return once forwarded >= 20; forwarded is the elapsed time in 2 s units,
\* one more at each tick
MonitorTick(g) ==
    /\ gor[g].mon = "on"
    /\ ~MonitorCtxDone(g)
    /\ gor[g].fwd < MaxTicks
    /\ LET forwarded == gor[g].fwd + 1 IN
        /\ EmitProgress("forward", gor[g].task, forwarded)
        /\ store' = UpdateTaskStatus("forward", gor[g].task, "running", forwarded * 5)
        /\ gor' = [gor EXCEPT ![g] = IF forwarded >= ForwardDone
                                       THEN MonitorOff(g)
                                       ELSE [gor[g] EXCEPT !.fwd = forwarded]]
    /\ UNCHANGED <<wsClients, serverCancelled, active, termEvents>>
    /\ frontend' = Broadcast(frontend, "forward", "progress", gor[g].task)
    /\ UNCHANGED <<kv, tempDir, lastForward, ident, lastSettings>>
    /\ UNCHANGED authVars
    /\ UNCHANGED <<hubVars, lastVerify>>

\* monitorRealForwardProgress, ctx.Done case
MonitorExit(g) ==
    /\ gor[g].mon = "on"
    /\ MonitorCtxDone(g)
    /\ gor' = [gor EXCEPT ![g] = MonitorOff(g)]
    /\ UNCHANGED <<wsClients, serverCancelled, store, active, termEvents, lastProg>>
    /\ UNCHANGED <<kv, tempDir, frontend, lastForward, ident, lastSettings>>
    /\ UNCHANGED authVars
    /\ UNCHANGED <<hubVars, lastVerify>>

CancelForwardTask(t) == StopTask("forward", t, "cancelled")

\* ----------------------------------------------------------- upload tasks
\* how a StartUpload request with files ends: a file cannot be saved, the
\* client cannot be identified, or the task goroutine is started
UploadOutcomes == {"save_failed", "no_client", "ok"}

\* StartUpload: createTempDir(taskID); when saveUploadedFile fails the handler
\* returns there; otherwise the task is stored as pending; when
\* getOrCreateClientID fails the handler returns there, otherwise it creates
\* the context and the goroutine
StartUpload(t, g, outcome) ==
    /\ ~serverCancelled
    /\ NextFreeGor(g)
    /\ tempDir' = [tempDir EXCEPT ![t] = TRUE]
    /\ store' = IF outcome = "save_failed" THEN store
                ELSE [store EXCEPT !["upload"][t] = [Status |-> "pending", Progress |-> 0]]
    /\ active' = IF outcome = "ok" THEN [active EXCEPT !["upload"][t] = g] ELSE active
    /\ gor' = IF outcome = "ok"
              THEN [gor EXCEPT ![g] = [FreeGor EXCEPT !.kind = "upload", !.task = t, !.pc = "upload"]]
              ELSE gor
    /\ UNCHANGED <<wsClients, serverCancelled, termEvents, lastProg>>
    /\ UNCHANGED <<kv, frontend, lastForward, ident, lastSettings>>
    /\ UNCHANGED authVars
    /\ UNCHANGED <<hubVars, lastVerify>>

\* StartUpload goroutine: executeUpload returns (an error is always possible,
\* and is what a cancelled context yields); status error, or completed with
\* progress 100; the deferred activeTasks.Delete and os.RemoveAll(tempDir)
UploadReturn(g, failed) ==
    /\ gor[g].pc = "upload"
    /\ LET t == gor[g].task IN
       store' = IF store["upload"][t].Status = "none" THEN store
                ELSE IF failed THEN [store EXCEPT !["upload"][t].Status = "error"]
                ELSE [store EXCEPT !["upload"][t] = [Status |-> "completed", Progress |-> 100]]
    /\ ExitGor(g)
    /\ tempDir' = [tempDir EXCEPT ![gor[g].task] = FALSE]
    /\ UNCHANGED <<wsClients, serverCancelled, termEvents, lastProg>>
    /\ UNCHANGED <<kv, frontend, lastForward, ident, lastSettings>>
    /\ UNCHANGED authVars
    /\ UNCHANGED <<hubVars, lastVerify>>

\* CancelUploadTask: not found without an activeTasks entry; otherwise cancel,
\* delete the entry, status cancelled
CancelUploadTask(t) ==
    /\ ~serverCancelled
    /\ active["upload"][t] # 0
    /\ gor' = [g \in Goroutines |->
                 IF g \in CancelTargets("upload", t) THEN [gor[g] EXCEPT !.cancelled = TRUE] ELSE gor[g]]
    /\ active' = [active EXCEPT !["upload"][t] = 0]
    /\ store' = IF store["upload"][t].Status = "none" THEN store
                ELSE [store EXCEPT !["upload"][t].Status = "cancelled"]
    /\ UNCHANGED <<wsClients, serverCancelled, termEvents, lastProg>>
    /\ UNCHANGED <<kv, tempDir, frontend, lastForward, ident, lastSettings>>
    /\ UNCHANGED authVars
    /\ UNCHANGED <<hubVars, lastVerify>>

\* the server context is cancelled (shutdown)
ServerCancel ==
    /\ ~serverCancelled
    /\ serverCancelled' = TRUE
    /\ UNCHANGED <<wsClients, gor, store, active, termEvents, lastProg>>
    /\ UNCHANGED <<kv, tempDir, frontend, lastForward, ident, lastSettings>>
    /\ UNCHANGED authVars
    /\ UNCHANGED <<hubVars, lastVerify>>

\* ResumeTask on a task that is not paused: not found or validation error, and
\* the API call the frontend has in flight fails
ResumeRejected(t) ==
    /\ ~serverCancelled
    /\ store["download"][t].Status # "paused"
    /\ frontend.call[t] = <<"resume", "sent">>
    /\ frontend' = [frontend EXCEPT !.call[t] = NoCall]
    /\ UNCHANGED <<wsClients, serverCancelled, gor, store, active, termEvents, lastProg>>
    /\ UNCHANGED <<kv, tempDir, lastForward, ident, lastSettings>>
    /\ UNCHANGED authVars
    /\ UNCHANGED <<hubVars, lastVerify>>

\* ------------------------------------------------------ frontend (browser)
FrontendFrame ==
    /\ UNCHANGED <<wsClients, serverCancelled, gor, store, active, termEvents, lastProg>>
    /\ UNCHANGED <<kv, tempDir, lastForward, ident, lastSettings>>
    /\ UNCHANGED authVars
    /\ UNCHANGED <<hubVars, lastVerify>>

\* useWebSocket connect: the socket opens and the hub registers the client
FrontendConnect ==
    /\ ~frontend.connected
    /\ frontend' = [frontend EXCEPT !.connected = TRUE]
    /\ FrontendFrame

\* the download dialog: addTask with status pending under a fresh task id,
\* before the StartDownload request is sent
FrontendAddTask(t) ==
    /\ frontend.connected
    /\ frontend.tasks[t] = "none"
    /\ store["download"][t].Status = "none"
    /\ frontend' = [frontend EXCEPT !.tasks[t] = "pending"]
    /\ FrontendFrame

\* handleMessage: updateTask changes only a task that is in the store
HandleMessage(tasks, msg) ==
    LET type == msg[1]
        t == msg[2]
    IN  IF tasks[t] = "none" THEN tasks
        ELSE IF type = "progress" THEN [tasks EXCEPT ![t] = "running"]
        ELSE IF type = "task_end" THEN [tasks EXCEPT ![t] = "completed"]
        ELSE IF type = "task_error" THEN [tasks EXCEPT ![t] = "error"]
        ELSE tasks

\* ws.onmessage: the next message is handled
FrontendOnMessage ==
    /\ frontend.queue # <<>>
    /\ frontend' = [frontend EXCEPT !.queue = Tail(@),
                                    !.tasks = HandleMessage(@, Head(frontend.queue))]
    /\ FrontendFrame

\* the task actions of handleTaskAction that call the API
TaskActions == {"pause", "resume", "retry", "cancel"}

\* handleTaskAction up to its await: the API request is sent
FrontendCall(t, action) ==
    /\ frontend.tasks[t] # "none"
    /\ frontend.call[t] = NoCall
    /\ frontend' = [frontend EXCEPT !.call[t] = <<action, "sent">>]
    /\ FrontendFrame

\* the store update handleTaskAction makes once the call has succeeded:
\* pauseTask, resumeTask, retryTask, removeTask
AfterAction(tasks, t, action) ==
    IF tasks[t] = "none" THEN tasks
    ELSE IF action = "pause" THEN [tasks EXCEPT ![t] = "paused"]
    ELSE IF action = "resume" THEN [tasks EXCEPT ![t] = "running"]
    ELSE IF action = "retry" THEN [tasks EXCEPT ![t] = "pending"]
    ELSE [tasks EXCEPT ![t] = "none"]

\* handleTaskAction after its await
FrontendResponse(t) ==
    /\ frontend.call[t][2] = "answered"
    /\ frontend' = [frontend EXCEPT !.call[t] = NoCall,
                                    !.tasks = AfterAction(@, t, frontend.call[t][1])]
    /\ FrontendFrame

\* handleTaskAction, remove: removeTask without an API call
FrontendRemove(t) ==
    /\ frontend.tasks[t] # "none"
    /\ frontend.call[t] = NoCall
    /\ frontend' = [frontend EXCEPT !.tasks[t] = "none"]
    /\ FrontendFrame

\* one request reaches the auth, download, forward and upload handlers, and
\* each derives the client id from it
Identify(req, genDownload, genForward) ==
    /\ ident' = [seen |-> TRUE, req |-> req,
                 auth |-> AuthClientID(req),
                 download |-> DownloadClientID(req, genDownload),
                 forward |-> ForwardClientID(req, genForward),
                 upload |-> UploadClientID(req)]
    /\ UNCHANGED <<wsClients, serverCancelled, gor, store, active, termEvents, lastProg>>
    /\ UNCHANGED <<kv, tempDir, frontend, lastForward, lastSettings>>
    /\ UNCHANGED authVars
    /\ UNCHANGED <<hubVars, lastVerify>>

NextIdent ==
    \E req \in Requests, genDownload \in GenOutcomes, genForward \in GenOutcomes :
        Identify(req, genDownload, genForward)

\* ------------------------------------------------------- WebSocket hub
\* two WebSocket clients: one can be slow while the other drains its channel
ClientIDs == {1, 2}
\* the goroutines that call BroadcastProgress / BroadcastTaskStatus / BroadcastNotification
Callers == {1, 2}

InitHub ==
    /\ hubClients = {}
    /\ send = [c \in ClientIDs |-> <<>>]
    /\ closes = [c \in ClientIDs |-> 0]
    /\ sentClosed = FALSE
    /\ cpc = [c \in ClientIDs |-> "new"]
    /\ wpc = [c \in ClientIDs |-> "off"]
    /\ bcall = [b \in Callers |-> 0]
    /\ nMsg = 0
    /\ accepted = <<>>
    /\ placed = [c \in ClientIDs |-> <<>>]
    /\ regAt = [c \in ClientIDs |-> -1]
    /\ remAt = [c \in ClientIDs |-> -1]
    /\ remBy = [c \in ClientIDs |-> "none"]

HubFrame == UNCHANGED kv /\ UNCHANGED authVars /\ UNCHANGED handlerVars /\ UNCHANGED lastVerify

\* HandleWebSocket: the client is created and the handler blocks on
\* client.hub.register <- client
Connect(c) ==
    /\ cpc[c] = "new"
    /\ \A d \in ClientIDs : d < c => cpc[d] # "new"
    /\ cpc' = [cpc EXCEPT ![c] = "register"]
    /\ UNCHANGED <<hubClients, send, closes, sentClosed, wpc, bcall, nMsg, accepted, placed, regAt, remAt, remBy>>
    /\ HubFrame

\* Hub.Run, case client := <-h.register; the handler then starts both pumps
HubRegister(c) ==
    /\ cpc[c] = "register"
    /\ hubClients' = hubClients \cup {c}
    /\ cpc' = [cpc EXCEPT ![c] = "open"]
    /\ wpc' = [wpc EXCEPT ![c] = "run"]
    /\ regAt' = [regAt EXCEPT ![c] = Len(accepted)]
    /\ UNCHANGED <<send, closes, sentClosed, bcall, nMsg, accepted, placed, remAt, remBy>>
    /\ HubFrame

\* readPump: ReadMessage fails, the deferred function blocks on c.hub.unregister <- c
ReadFail(c) ==
    /\ cpc[c] = "open"
    /\ cpc' = [cpc EXCEPT ![c] = "unregister"]
    /\ UNCHANGED <<hubClients, send, closes, sentClosed, wpc, bcall, nMsg, accepted, placed, regAt, remAt, remBy>>
    /\ HubFrame

\* Hub.Run, unregister case: if _, ok := h.clients[client]; ok
InClients_always(c) == TRUE
InClients(c) == c \in hubClients

\* close(client.send)
Close(cl, c) == [cl EXCEPT ![c] = Min(@ + 1, 2)]

\* Hub.Run, case client := <-h.unregister
HubUnregister(c) ==
    /\ cpc[c] = "unregister"
    /\ IF InClients(c)
       THEN /\ hubClients' = hubClients \ {c}
            /\ closes' = Close(closes, c)
            /\ remAt' = [remAt EXCEPT ![c] = Len(accepted)]
            /\ remBy' = [remBy EXCEPT ![c] = "unregister"]
       ELSE UNCHANGED <<hubClients, closes, remAt, remBy>>
    /\ cpc' = [cpc EXCEPT ![c] = "gone"]
    /\ UNCHANGED <<send, sentClosed, wpc, bcall, nMsg, accepted, placed, regAt>>
    /\ HubFrame

\* broadcastMessage: the caller marshals the message and blocks on h.broadcast <- data
BroadcastCall(b) ==
    /\ bcall[b] = 0
    /\ nMsg < MaxMsgs
    /\ nMsg' = nMsg + 1
    /\ bcall' = [bcall EXCEPT ![b] = nMsg + 1]
    /\ UNCHANGED <<hubClients, send, closes, sentClosed, cpc, wpc, accepted, placed, regAt, remAt, remBy>>
    /\ HubFrame

\* the buffer of client.send has no room: the select takes its default branch
BufferFull_early(c) == Len(send[c]) + 1 >= SendCap
BufferFull(c) == Len(send[c]) >= SendCap

\* the send inside the select has a default branch and never blocks the hub
SendBlocks_noDefault(c) == BufferFull(c)
SendBlocks(c) == FALSE

\* the clients of the map whose channel the broadcast loop closes
Evicted(cs) == {c \in cs : BufferFull(c)}

\* the clients of the map the broadcast loop sends the message to
Served_break(cs) == IF Evicted(cs) # {} THEN {} ELSE cs
Served(cs) == cs \ Evicted(cs)

\* Hub.Run, case message := <-h.broadcast: the loop over h.clients
HubBroadcast(b) ==
    /\ bcall[b] # 0
    /\ \A c \in hubClients : ~SendBlocks(c)
    /\ send' = [c \in ClientIDs |->
                  IF c \in Served(hubClients) THEN Append(send[c], bcall[b]) ELSE send[c]]
    /\ placed' = [c \in ClientIDs |->
                    IF c \in Served(hubClients) THEN Append(placed[c], bcall[b]) ELSE placed[c]]
    /\ sentClosed' = (sentClosed \/ \E c \in Served(hubClients) : closes[c] > 0)
    /\ closes' = [c \in ClientIDs |->
                    IF c \in Evicted(hubClients) THEN Min(closes[c] + 1, 2) ELSE closes[c]]
    /\ hubClients' = hubClients \ Evicted(hubClients)
    /\ accepted' = Append(accepted, bcall[b])
    /\ remAt' = [c \in ClientIDs |->
                   IF c \in Evicted(hubClients) THEN Len(accepted) + 1 ELSE remAt[c]]
    /\ remBy' = [c \in ClientIDs |->
                   IF c \in Evicted(hubClients) THEN "broadcast" ELSE remBy[c]]
    /\ bcall' = [bcall EXCEPT ![b] = 0]
    /\ UNCHANGED <<cpc, wpc, nMsg, regAt>>
    /\ HubFrame

\* writePump: a message is received from c.send and written; once the
\* channel is closed and empty the close message is written and the pump returns
WriteTake(c) ==
    /\ wpc[c] = "run"
    /\ IF send[c] # <<>>
       THEN send' = [send EXCEPT ![c] = Tail(@)] /\ UNCHANGED wpc
       ELSE /\ closes[c] > 0
            /\ wpc' = [wpc EXCEPT ![c] = "done"]
            /\ UNCHANGED send
    /\ UNCHANGED <<hubClients, closes, sentClosed, cpc, bcall, nMsg, accepted, placed, regAt, remAt, remBy>>
    /\ HubFrame

\* writePump: WriteMessage fails (text or ping) and the pump returns
WriteFail(c) ==
    /\ wpc[c] = "run"
    /\ wpc' = [wpc EXCEPT ![c] = "done"]
    /\ UNCHANGED <<hubClients, send, closes, sentClosed, cpc, bcall, nMsg, accepted, placed, regAt, remAt, remBy>>
    /\ HubFrame

NextHub ==
    \/ \E c \in ClientIDs : Connect(c)
    \/ \E c \in ClientIDs : HubRegister(c)
    \/ \E c \in ClientIDs : ReadFail(c)
    \/ \E c \in ClientIDs : HubUnregister(c)
    \/ \E b \in Callers : BroadcastCall(b)
    \/ \E b \in Callers : HubBroadcast(b)
    \/ \E c \in ClientIDs : WriteTake(c)
    \/ \E c \in ClientIDs : WriteFail(c)

\* the settings requests the task specifications draw from
TaskSettingsInputs == {[DefaultSettings EXCEPT !.MaxTasks = n] : n \in {1, 9}}

NextDownload ==
    \/ \E t \in TaskIDs, g \in Goroutines : StartDownload(t, g)
    \/ \E g \in Goroutines : GorStart(g)
    \/ \E g \in Goroutines : DownloadLoop(g)
    \/ \E g \in Goroutines : DownloadTick(g)
    \/ \E g \in Goroutines : GorFinal(g)
    \/ \E g \in Goroutines : GorComplete(g)
    \/ \E t \in TaskIDs : CancelTask(t)
    \/ \E t \in TaskIDs : PauseTask(t)
    \/ \E t \in TaskIDs : ResumeTask(t)
    \/ \E t \in TaskIDs : RetryTask(t)
    \/ \E t \in TaskIDs : GetTasksEntry("download", t)
    \/ RegisterClient

\* the forward handler under every request
NextForward ==
    \/ \E req \in ForwardRequests, t \in TaskIDs, g \in Goroutines : StartForward(req, t, g)
    \/ \E g \in Goroutines : GorStart(g)
    \/ \E g \in Goroutines, failed \in BOOLEAN : ForwardExec(g, failed)
    \/ \E g \in Goroutines, failed \in BOOLEAN : ForwardReturn(g, failed)
    \/ \E g \in Goroutines : ForwardFail(g)
    \/ \E g \in Goroutines : MonitorTick(g)
    \/ \E g \in Goroutines : MonitorExit(g)
    \/ \E g \in Goroutines : GorFinal(g)
    \/ \E g \in Goroutines : GorComplete(g)
    \/ \E t \in TaskIDs : CancelForwardTask(t)
    \/ \E t \in TaskIDs : GetTasksEntry("forward", t)

\* the download handler together with one frontend
NextFrontend ==
    \/ \E t \in TaskIDs, g \in Goroutines : StartDownload(t, g)
    \/ \E g \in Goroutines : GorStart(g)
    \/ \E g \in Goroutines : DownloadLoop(g)
    \/ \E g \in Goroutines : DownloadTick(g)
    \/ \E g \in Goroutines : GorFinal(g)
    \/ \E g \in Goroutines : GorComplete(g)
    \/ \E t \in TaskIDs : CancelTask(t)
    \/ \E t \in TaskIDs : PauseTask(t)
    \/ \E t \in TaskIDs : ResumeTask(t)
    \/ \E t \in TaskIDs : ResumeRejected(t)
    \/ \E t \in TaskIDs : RetryTask(t)
    \/ FrontendConnect
    \/ \E t \in TaskIDs : FrontendAddTask(t)
    \/ FrontendOnMessage
    \/ \E t \in TaskIDs, action \in TaskActions : FrontendCall(t, action)
    \/ \E t \in TaskIDs : FrontendResponse(t)
    \/ \E t \in TaskIDs : FrontendRemove(t)

NextTasks ==
    \/ \E t \in TaskIDs, g \in Goroutines : StartDownload(t, g)
    \/ \E t \in TaskIDs, g \in Goroutines : StartForward(DirectForward, t, g)
    \/ \E t \in TaskIDs, g \in Goroutines, outcome \in UploadOutcomes : StartUpload(t, g, outcome)
    \/ \E g \in Goroutines : GorStart(g)
    \/ \E g \in Goroutines : DownloadLoop(g)
    \/ \E g \in Goroutines : DownloadTick(g)
    \/ \E g \in Goroutines, failed \in BOOLEAN : ForwardExec(g, failed)
    \/ \E g \in Goroutines, failed \in BOOLEAN : ForwardReturn(g, failed)
    \/ \E g \in Goroutines : ForwardFail(g)
    \/ \E g \in Goroutines : MonitorTick(g)
    \/ \E g \in Goroutines : MonitorExit(g)
    \/ \E g \in Goroutines, failed \in BOOLEAN : UploadReturn(g, failed)
    \/ \E g \in Goroutines : GorFinal(g)
    \/ \E g \in Goroutines : GorComplete(g)
    \/ \E t \in TaskIDs : CancelTask(t)
    \/ \E t \in TaskIDs : PauseTask(t)
    \/ \E t \in TaskIDs : CancelForwardTask(t)
    \/ \E t \in TaskIDs : CancelUploadTask(t)
    \/ ServerCancel

Init == InitAuth /\ InitTasks /\ InitHub

SpecAuth == Init /\ [][NextAuth]_vars

SpecDownload == Init /\ [][NextDownload]_vars

SpecIdent == Init /\ [][NextIdent]_vars

\* the authentication service and the settings handler on one storage
NextStorage ==
    \/ NextAuth
    \/ UpdateSettings(ProxySettings)
    \/ ResetSettings

SpecStorage == Init /\ [][NextStorage]_vars

SpecSettings == Init /\ [][NextSettings]_vars

SpecForward == Init /\ [][NextForward]_vars

SpecFrontend == Init /\ [][NextFrontend]_vars

Spec == SpecAuth

\* Hub.Run is scheduled and its select takes every ready case in the end:
\* a sender blocked on one of the hub's channels is received from
HubFairness ==
    /\ \A c \in ClientIDs : WF_vars(HubRegister(c)) /\ WF_vars(HubUnregister(c))
    /\ \A b \in Callers : WF_vars(HubBroadcast(b))

SpecHub == Init /\ [][NextHub]_vars /\ HubFairness

\* one step of task goroutine g, a call into the Telegram client returning
\* only once its context is cancelled
GorStep(g) ==
    \/ GorStart(g)
    \/ DownloadLoop(g)
    \/ DownloadTick(g)
    \/ \E failed \in BOOLEAN : ForwardExec(g, failed)
    \/ CtxDone(g) /\ \E failed \in BOOLEAN : ForwardReturn(g, failed)
    \/ ForwardFail(g)
    \/ CtxDone(g) /\ \E failed \in BOOLEAN : UploadReturn(g, failed)
    \/ GorFinal(g)
    \/ GorComplete(g)

\* the scheduler runs every runnable goroutine, the hub takes every broadcast,
\* and a call into the Telegram client returns once its context is cancelled
TaskFairness ==
    \A g \in Goroutines : WF_vars(GorStep(g)) /\ WF_vars(MonitorExit(g))

SpecTasks == Init /\ [][NextTasks]_vars /\ TaskFairness

\* every call of executeUpload returns in the end, cancelled or not
UploadFairness ==
    \A g \in Goroutines : WF_vars(\E failed \in BOOLEAN : UploadReturn(g, failed))

SpecUploads == Init /\ [][NextTasks]_vars /\ TaskFairness /\ UploadFairness

\* the task handlers together with the settings handler
NextLimit ==
    \/ NextTasks
    \/ \E st \in TaskSettingsInputs : UpdateSettings(st)

SpecLimit == Init /\ [][NextLimit]_vars

\* goroutine g has not been started, or has returned together with its monitor
Exited(g) == gor[g].pc \in {"unused", "done"}

\* -------------------------------------------------------------- properties

\* C1: after Logout(userID) has returned, IsAuthenticated(userID) is false
\* until a later login for that account writes or completes.
C1_LogoutDeletesSession ==
    \A u \in UserIDs : loggedOut[u] => ~IsAuthenticated(u).auth

C3_LoginNamespaceIsClientNamespace ==
    \A o \in LoginIDs :
        (login[o].Type = "qr" /\ login[o].Status = StatusCompleted)
        => login[o].clientKV = ClientNamespace(login[o].UserInfo.ID)

\* C4: once the server context is cancelled, the context of every task
\* goroutine still running (download, forward, upload) is done, and every task
\* goroutine eventually exits.
C4_ServerCancelStopsAllTasks ==
    /\ [](serverCancelled => \A g \in Goroutines : ~Exited(g) => CtxDone(g))
    /\ (serverCancelled ~> \A g \in Goroutines : Exited(g))

\* the server context has been cancelled while a download goroutine is in its
\* loop and a forward goroutine is inside client.Run with its monitor running,
\* neither of them cancelled by a request: both task contexts are done
C4_Witness ==
    /\ serverCancelled
    /\ \E g \in Goroutines :
          gor[g].kind = "download" /\ gor[g].pc = "loop" /\ ~gor[g].cancelled /\ CtxDone(g)
    /\ \E g \in Goroutines :
          /\ gor[g].kind = "forward" /\ gor[g].pc = "run" /\ gor[g].mon = "on"
          /\ ~gor[g].cancelled /\ CtxDone(g)

\* the step cancels, pauses or fails task t of handler h
StopsOrFails(h, t) ==
    \/ h = "download" /\ (CancelTask(t) \/ PauseTask(t))
    \/ h = "forward" /\ CancelForwardTask(t)
    \/ h = "upload" /\ CancelUploadTask(t)
    \/ \E g \in Goroutines :
          /\ gor[g].kind = h
          /\ gor[g].task = t
          /\ \/ h = "forward" /\ ForwardFail(g)
             \/ h = "upload" /\ UploadReturn(g, TRUE)

\* every other task keeps its context, status, progress and activeTasks entry
SiblingsUnchanged(h, t) ==
    /\ \A h2 \in Handlers, t2 \in TaskIDs :
          <<h2, t2>> # <<h, t>>
          => store'[h2][t2] = store[h2][t2] /\ active'[h2][t2] = active[h2][t2]
    /\ \A g \in Goroutines :
          (~Exited(g) /\ <<gor[g].kind, gor[g].task>> # <<h, t>>)
          => gor'[g] = gor[g] /\ (CtxDone(g)' = CtxDone(g))

C6_OneTerminalEvent ==
    \A h \in Handlers, t \in TaskIDs :
        store[h][t].Status # "none" => termEvents[h][t] <= 1

\* C7: the transferred count of the progress events a registered client
\* receives for one task ID never decreases from one event to the next.
C7_ProgressMonotonic ==
    [][\A h \in Handlers, t \in TaskIDs :
          lastProg'[h][t] >= lastProg[h][t] \/ lastProg'[h][t] = -1]_vars

\* C8: once the stored status of a download task is completed, no later
\* CancelTask, PauseTask, RetryTask or progress update changes it (a new
\* StartDownload under the same ID stores a new task).
C8_CompletedIsFinal ==
    [][\A t \in TaskIDs :
          (store["download"][t].Status = "completed" /\ ~\E g \in Goroutines : StartDownload(t, g))
          => store'["download"][t].Status = "completed"]_vars

\* C9: PauseTask leaves the stored progress of the task as it was.
C9_PauseKeepsProgress ==
    [][\A t \in TaskIDs :
          PauseTask(t) => store'["download"][t].Progress = store["download"][t].Progress]_vars

\* the tasks stored with status running, over all handlers
RunningTasks == {ht \in Handlers \X TaskIDs : store[ht[1]][ht[2]].Status = "running"}

\* C10: never more tasks in status running than the configured MaxTasks.
C10_RunningWithinMaxTasks ==
    Cardinality(RunningTasks) <= GetCurrentSettings.MaxTasks

\* the task goroutines executing for task t of handler h and not yet cancelled
Executing(h, t) ==
    {g \in Goroutines : /\ gor[g].kind = h
                        /\ gor[g].task = t
                        /\ gor[g].pc \notin {"unused", "done", "exited"}
                        /\ ~gor[g].cancelled}

\* C11: for any task ID at most one task goroutine executes, and while it
\* executes (its context not cancelled by a request) activeTasks holds that
\* goroutine's own cancel func.
C11_OneWorkerPerTask ==
    \A h \in Handlers, t \in TaskIDs :
        /\ Cardinality(Executing(h, t)) <= 1
        /\ \A g \in Executing(h, t) : active[h][t] = g

\* task goroutine g returns in this step
GorEnds(g) ==
    /\ gor[g].pc \notin {"unused", "done", "exited"}
    /\ gor'[g].pc \in {"done", "exited"}

\* C12: when a task goroutine returns (success, error or cancellation) the
\* activeTasks entry of its task is removed, and every temporary upload
\* directory that exists is eventually deleted.
C12_TeardownOnExit ==
    /\ [][\A g \in Goroutines : GorEnds(g) => active'[gor[g].kind][gor[g].task] = 0]_vars
    /\ \A t \in TaskIDs : tempDir[t] ~> ~tempDir[t]

\* the frontend has handled every message broadcast to it and has no API call
\* in flight for task t, which it holds in its store
FrontendSettled(t) ==
    /\ frontend.connected
    /\ frontend.queue = <<>>
    /\ frontend.call[t] = NoCall
    /\ frontend.tasks[t] # "none"

\* C13: once the frontend has handled every event broadcast for a task, the
\* status of the task in the frontend store equals its status in the backend
\* store whenever the latter is completed, cancelled, paused or error.
C13_FrontendInSync ==
    \A t \in TaskIDs :
        (FrontendSettled(t) /\ store["download"][t].Status \in {"completed", "cancelled", "paused", "error"})
        => frontend.tasks[t] = store["download"][t].Status

\* C14: a StartForward request with from_sources, a valid mode and an empty
\* to_chat is accepted and stores a forward task.
C14_EmptyToChatAccepted ==
    (/\ lastForward.code # "none"
     /\ lastForward.req.FromSources > 0
     /\ ToLower(lastForward.req.Mode) \in {"clone", "direct", ""}
     /\ lastForward.req.ToChat = "")
    => /\ lastForward.code = "ok"
       /\ \E t \in TaskIDs : store["forward"][t].Status # "none"

\* C15: for any request, the client ids derived by the download, forward and
\* upload handlers equal the one the auth handler derives
\* (util.SafeClientID of the client IP).
C15_SameClientID ==
    ident.seen =>
        /\ ident.auth = [id |-> SafeClientID(ident.req.ip), err |-> FALSE]
        /\ ident.download = ident.auth
        /\ ident.forward = ident.auth
        /\ ident.upload = ident.auth

\* the four ranges of the settings
WithinBounds(st) ==
    /\ st.ReconnectTimeout >= 0
    /\ st.MaxThreads \in 1..16
    /\ st.MaxTasks \in 1..8
    /\ st.PartSize \in 64..2048

\* C16: an UpdateSettings request with a field outside its range is rejected
\* with a validation error and leaves the stored settings unchanged, and the
\* settings stored under settings/global always satisfy the four ranges.
C16_InvalidSettingsRejected ==
    /\ [][(UpdateSettings(lastSettings'.req) /\ ~WithinBounds(lastSettings'.req))
              => kv' = kv /\ lastSettings'.code = "validation_error"]_vars
    /\ [](kv[SettingsNS]["global"] # NotFound
            => WithinBounds(UnmarshalSettings(kv[SettingsNS]["global"])))

\* settings are stored, and the last request was rejected for MaxTasks = 9
C16_Witness ==
    /\ kv[SettingsNS]["global"] # NotFound
    /\ lastSettings.code = "validation_error"
    /\ lastSettings.req.MaxTasks = 9
    /\ lastSettings.req.MaxThreads = 16
    /\ lastSettings.req.PartSize = 64
    /\ lastSettings.req.ReconnectTimeout = 0

\* C17: after a successful UpdateSettings(s), GetSettings and
\* GetCurrentSettings both return s; after ResetSettings both return the
\* defaults: empty proxy, reconnect timeout 300, 4 threads, 2 tasks, part size 512.
C17_SettingsRoundTrip ==
    /\ (lastSettings.op = "update" /\ lastSettings.code = "ok")
       => GetSettings = lastSettings.req /\ GetCurrentSettings = lastSettings.req
    /\ (lastSettings.op = "reset" /\ lastSettings.code = "ok")
       => /\ GetSettings = GetCurrentSettings
          /\ GetSettings = [GlobalProxy |-> 0, ReconnectTimeout |-> 300, MaxThreads |-> 4,
                            MaxTasks |-> 2, PartSize |-> 512]

\* settings with a proxy and values off the defaults were stored by the last
\* request and are read back
C17_Witness ==
    /\ lastSettings.op = "update"
    /\ lastSettings.code = "ok"
    /\ lastSettings.req = [GlobalProxy |-> 1, ReconnectTimeout |-> 0, MaxThreads |-> 16,
                           MaxTasks |-> 8, PartSize |-> 2048]
    /\ GetSettings = lastSettings.req

\* C18: deleting an absent key is tolerated. A Logout step that deletes an
\* absent key leaves the storage unchanged and Logout goes on to return nil;
\* ResetSettings with no stored settings leaves the storage unchanged and
\* succeeds.
C18_DeleteAbsentTolerated ==
    /\ [][\A u \in UserIDs :
              /\ (LogoutDeleteSession(u) /\ kv[UserNS(u)]["session"] = NotFound)
                 => kv' = kv /\ lpc'[u] = "del_info"
              /\ (LogoutDeleteUserInfo(u) /\ kv[UserNS(u)]["user_info"] = NotFound)
                 => kv' = kv /\ loggedOut'[u]]_vars
    /\ [][(ResetSettings /\ kv[SettingsNS]["global"] = NotFound) => kv' = kv]_vars
    /\ []((lastSettings.op = "reset" /\ lastSettings.err = "not_found")
            => lastSettings.code = "ok")

\* Logout has returned nil for an account no login was ever started for, and
\* the last ResetSettings found no stored settings
C18_Witness ==
    /\ \A o \in LoginIDs : login[o].pc = "unused"
    /\ \E u \in UserIDs : loggedOut[u] /\ lpc[u] = "idle"
    /\ \A ns \in Namespaces, k \in Keys : kv[ns][k] = NotFound
    /\ lastSettings.op = "reset"
    /\ lastSettings.err = "not_found"
    /\ lastSettings.code = "ok"

\* the step completes a login to account a (saveUserInfo, status completed)
\* or is a storage step of Logout for a
TouchesAccount(a) ==
    \/ \E o \in LoginIDs :
          /\ login[o].info.ID = a
          /\ (SaveUserInfo(o) \/ SaveSession(o) \/ CompleteLogin(o))
    \/ LogoutDeleteSession(a)
    \/ LogoutDeleteUserInfo(a)

\* nothing outside user_<a> changes: no other namespace, what IsAuthenticated
\* returns for the other accounts, the global settings
OutsideUnchanged(a) ==
    /\ \A ns \in Namespaces \ {UserNS(a)} : kv'[ns] = kv[ns]
    /\ \A u \in UserIDs \ {a} : IsAuthenticated(u)' = IsAuthenticated(u)
    /\ GetCurrentSettings' = GetCurrentSettings

\* C19: completing a login or logging out for one account changes only keys
\* of that account's user_<id> namespace: never what IsAuthenticated returns
\* for another account, never the stored global settings.
C19_NamespacesNotMerged ==
    [][\A a \in UserIDs : TouchesAccount(a) => OutsideUnchanged(a)]_vars

\* a login to one account has completed and its record is stored, with
\* settings stored under settings/global and the other account not authenticated
C19_Witness ==
    \E o \in LoginIDs :
        /\ login[o].Status = StatusCompleted
        /\ IsAuthenticated(login[o].UserInfo.ID).auth
        /\ kv[SettingsNS]["global"] = MarshalSettings(ProxySettings)
        /\ \A u \in UserIDs \ {login[o].UserInfo.ID} : ~IsAuthenticated(u).auth

\* C20: after ResumeTask has succeeded, the task has an executing goroutine
\* whose context is not cancelled and an activeTasks entry again (so that it
\* can go on to status completed).
C20_ResumeRestartsTask ==
    [][\A t \in TaskIDs :
          ResumeTask(t) => /\ active'["download"][t] # 0
                           /\ Executing("download", t)' # {}]_vars

\* a step of a task goroutine that runs for task t of handler h
TaskGorStep(h, t) ==
    \E g \in Goroutines : gor[g].kind = h /\ gor[g].task = t /\ GorStep(g)

\* the goroutines of task t of handler h have all stored status running
Started(h, t) ==
    \A g \in Goroutines : gor[g].kind = h /\ gor[g].task = t => gor[g].pc # "start"

\* C21: once CancelTask has stored status cancelled for a download task whose
\* goroutine had set it running, no step of the task's goroutine and no
\* GetTasks changes that status.
C21_CancelledStays ==
    [][\A t \in TaskIDs :
          /\ store["download"][t].Status = "cancelled"
          /\ Started("download", t)
          /\ (TaskGorStep("download", t) \/ GetTasksEntry("download", t))
          => store'["download"][t].Status = "cancelled"]_vars

\* the task goroutines of task t of handler h that have not returned yet
Alive(h, t) ==
    {g \in Goroutines : /\ gor[g].kind = h
                        /\ gor[g].task = t
                        /\ gor[g].pc \notin {"unused", "done", "exited"}}

\* C22: GetTasks / GetForwardTasks store error "Task was interrupted" only for
\* a task none of whose goroutines is still executing.
C22_InterruptedOnlyWhenStopped ==
    [][\A h \in {"download", "forward"}, t \in TaskIDs :
          GetTasksEntry(h, t) => Alive(h, t) = {}]_vars

\* the hub removed client c in the broadcast loop, its buffer being full
EvictedByBroadcast(c) == remBy[c] = "broadcast"

\* C23: every client's send channel is closed at most once, and the hub never
\* sends on a channel it has closed.
C23_ClosedOnceNeverSentAfter ==
    /\ \A c \in ClientIDs : closes[c] <= 1
    /\ ~sentClosed

\* a client was evicted by a broadcast, its readPump then unregistered it,
\* and the hub accepted a later broadcast
C23_Witness ==
    \E c \in ClientIDs :
        /\ EvictedByBroadcast(c)
        /\ cpc[c] = "gone"
        /\ closes[c] = 1
        /\ Len(accepted) > remAt[c]

\* C24: a broadcast that finds a registered client's send buffer full removes
\* that client and closes its channel, and enqueues the message for every
\* registered client whose buffer has room.
C24_FullClientEvictedOthersServed ==
    [][\A b \in Callers :
          HubBroadcast(b) =>
              \A c \in hubClients :
                  IF Len(send[c]) >= SendCap
                  THEN /\ c \notin hubClients'
                       /\ closes'[c] = closes[c] + 1
                       /\ send'[c] = send[c]
                  ELSE /\ c \in hubClients'
                       /\ send'[c] = Append(send[c], bcall[b])]_vars

\* one client was evicted by a broadcast whose message another client, still
\* registered, received
C24_Witness ==
    \E c, d \in ClientIDs :
        /\ c # d
        /\ EvictedByBroadcast(c)
        /\ d \in hubClients
        /\ placed[d] # <<>>
        /\ placed[d][Len(placed[d])] = accepted[remAt[c]]

\* C25: every broadcast call and every register / unregister of a client
\* returns in the end, whether or not the clients drain their send channels.
C25_CallsReturn ==
    /\ \A b \in Callers : (bcall[b] # 0) ~> (bcall[b] = 0)
    /\ \A c \in ClientIDs : (cpc[c] = "register") ~> (cpc[c] # "register")
    /\ \A c \in ClientIDs : (cpc[c] = "unregister") ~> (cpc[c] = "gone")

\* a client whose buffer was never drained was evicted, it has unregistered,
\* and every broadcast call has returned
C25_Witness ==
    /\ nMsg = MaxMsgs
    /\ \A b \in Callers : bcall[b] = 0
    /\ \E c \in ClientIDs :
           /\ EvictedByBroadcast(c)
           /\ Len(send[c]) = SendCap
           /\ Len(placed[c]) = SendCap
           /\ cpc[c] = "gone"

\* the broadcasts the hub accepted from the registration of client c up to
\* its removal
AcceptedWhileRegistered(c) ==
    SubSeq(accepted, regAt[c] + 1, IF remAt[c] >= 0 THEN remAt[c] ELSE Len(accepted))

\* C26: the messages placed on a client's send channel are exactly the
\* broadcasts the hub accepted between its registration and its removal, in
\* that order.
C26_PlacedIsAcceptedWhileRegistered ==
    \A c \in ClientIDs : regAt[c] >= 0 => placed[c] = AcceptedWhileRegistered(c)

\* the broadcasts the hub accepted from the registration of client c up to
\* its removal, without the broadcast whose loop removed it
AcceptedBeforeRemoval(c) ==
    SubSeq(accepted, regAt[c] + 1,
           IF remBy[c] = "none" THEN Len(accepted)
           ELSE IF remBy[c] = "broadcast" THEN remAt[c] - 1
           ELSE remAt[c])

\* C26, amended: the messages placed on a client's send channel are exactly
\* the broadcasts the hub accepted after its registration and before its
\* removal, in that order; the broadcast that finds its buffer full and
\* removes it is not placed.
C26_PlacedIsAcceptedBeforeRemoval ==
    \A c \in ClientIDs : regAt[c] >= 0 => placed[c] = AcceptedBeforeRemoval(c)

\* a client registered after a first broadcast, received the next and was
\* evicted by the one after that
C26_Witness ==
    \E c \in ClientIDs :
        /\ regAt[c] > 0
        /\ EvictedByBroadcast(c)
        /\ placed[c] # <<>>
        /\ placed[c] = AcceptedBeforeRemoval(c)

\* C27: VerifyCode returns nil only for an existing session whose status is
\* waiting_code and VerifyPassword only for one whose status is
\* waiting_password; otherwise the call returns an error and changes neither
\* the sessions nor the storage.
C27_VerifyOnlyWhenWaiting ==
    [][\A sid \in SessionIDs :
          /\ VerifyCode(sid) =>
                 IF sessions[sid] # 0 /\ login[sessions[sid]].Status = StatusWaitingCode
                 THEN lastVerify'.err = "nil"
                 ELSE /\ lastVerify'.err # "nil"
                      /\ UNCHANGED <<login, sessions, kv>>
          /\ VerifyPassword(sid) =>
                 IF sessions[sid] # 0 /\ login[sessions[sid]].Status = StatusWaitingPassword
                 THEN lastVerify'.err = "nil"
                 ELSE /\ lastVerify'.err # "nil"
                      /\ UNCHANGED <<login, sessions, kv>>]_vars

\* VerifyCode was rejected for a session that exists and has left waiting_code
C27_Witness ==
    \E sid \in SessionIDs :
        /\ sessions[sid] # 0
        /\ login[sessions[sid]].Status = StatusCompleted
        /\ lastVerify.err = "not waiting for code"

====
